---- MODULE Spec2Model ----
(***************************************************************************)
(* Model of pkg/services/encryption/service/service.go: the encryption     *)
(* dispatch service.  Byte slices and strings are sequences of naturals    *)
(* (byte values); Go's string([]byte) and []byte(string) conversions keep  *)
(* the bytes as they are, so both are the same sequences here.             *)
(***************************************************************************)
EXTENDS Integers, Sequences, FiniteSets, TLC

VARIABLES ciphers, deciphers, configured, service, last

vars == <<ciphers, deciphers, configured, service, last>>

(***************************************************************************)
(* Program constants                                                       *)
(***************************************************************************)

\* '*'
encryptionAlgorithmDelimiter == 42

\* encryption.AesCfb = "aes-cfb"
AesCfb == <<97, 101, 115, 45, 99, 102, 98>>

\* "aes-gcm", a second registrable algorithm
AesGcm == <<97, 101, 115, 45, 103, 99, 109>>

defaultEncryptionAlgorithm == AesCfb

(***************************************************************************)
(* Bounds of the model                                                     *)
(***************************************************************************)

\* longest payload handed to Encrypt
MaxPayloadLen == 2

\* longest hand-made byte string handed to Decrypt
MaxRawLen == 3

\* an identifier nobody registers ("x"), also "xy" and "xyz" so that the
\* three base64 tail shapes occur
UnknownAlg == <<120>>
UnknownAlg2 == <<120, 121>>
UnknownAlg3 == <<120, 121, 122>>

\* algorithms a provider may register
Registrable == {AesCfb, AesGcm}

\* values the configuration key may hold; <<>> is "unset"
ConfigValues == {<<>>, AesCfb, AesGcm, UnknownAlg}

\* secrets: "k" and "j"
Secrets == {<<107>>, <<106>>}

\* payload bytes: '*' and a byte the cipher stand-ins turn into '*'
PayloadBytes == {42, 191}

RECURSIVE SeqsUpTo(_, _)
SeqsUpTo(S, n) ==
  IF n = 0 THEN {<<>>}
  ELSE LET shorter == SeqsUpTo(S, n - 1)
       IN shorter \cup {Append(q, b) : q \in shorter, b \in S}

Payloads == SeqsUpTo(PayloadBytes, MaxPayloadLen)

(***************************************************************************)
(* encoding/base64, RawStdEncoding (standard alphabet, no padding)         *)
(***************************************************************************)

\* the standard alphabet: index 0..63 to its character
B64Char(i) ==
  IF i < 26 THEN 65 + i
  ELSE IF i < 52 THEN 97 + (i - 26)
  ELSE IF i < 62 THEN 48 + (i - 52)
  ELSE IF i = 62 THEN 43
  ELSE 47

\* the decode map: a character to its index, -1 for a character outside
B64Val(c) ==
  IF c >= 65 /\ c <= 90 THEN c - 65
  ELSE IF c >= 97 /\ c <= 122 THEN c - 97 + 26
  ELSE IF c >= 48 /\ c <= 57 THEN c - 48 + 52
  ELSE IF c = 43 THEN 62
  ELSE IF c = 47 THEN 63
  ELSE -1

\* RawStdEncoding.EncodedLen(n)
EncodedLen(n) == (n \div 3) * 4 + ((n % 3) * 8 + 5) \div 6

\* RawStdEncoding.DecodedLen(n)
DecodedLen(n) == (n * 6) \div 8

\* RawStdEncoding.Encode: 3 bytes to 4 characters, a tail of 1 byte to 2
\* characters, a tail of 2 bytes to 3 characters, no padding
RECURSIVE B64Encode(_)
B64Encode(src) ==
  IF Len(src) = 0 THEN <<>>
  ELSE IF Len(src) = 1 THEN
    LET v == src[1] * 16
    IN <<B64Char(v \div 64), B64Char(v % 64)>>
  ELSE IF Len(src) = 2 THEN
    LET v == (src[1] * 256 + src[2]) * 4
    IN <<B64Char(v \div 4096), B64Char((v \div 64) % 64), B64Char(v % 64)>>
  ELSE
    LET v == src[1] * 65536 + src[2] * 256 + src[3]
    IN <<B64Char(v \div 262144), B64Char((v \div 4096) % 64),
         B64Char((v \div 64) % 64), B64Char(v % 64)>>
       \o B64Encode(SubSeq(src, 4, Len(src)))

\* the decoder skips '\r' and '\n'
RECURSIVE DropNewlines(_)
DropNewlines(src) ==
  IF Len(src) = 0 THEN <<>>
  ELSE IF src[1] = 10 \/ src[1] = 13 THEN DropNewlines(Tail(src))
  ELSE <<src[1]>> \o DropNewlines(Tail(src))

\* the quanta of a character string that is all alphabet characters:
\* 4 characters to 3 bytes, a tail of 2 to 1 byte, a tail of 3 to 2 bytes
\* (trailing bits are dropped, the decoder is not strict)
RECURSIVE B64Quanta(_)
B64Quanta(chars) ==
  IF Len(chars) < 2 THEN <<>>
  ELSE IF Len(chars) = 2 THEN
    LET v == B64Val(chars[1]) * 64 + B64Val(chars[2])
    IN <<v \div 16>>
  ELSE IF Len(chars) = 3 THEN
    LET v == B64Val(chars[1]) * 4096 + B64Val(chars[2]) * 64 + B64Val(chars[3])
    IN <<v \div 1024, (v \div 4) % 256>>
  ELSE
    LET v == B64Val(chars[1]) * 262144 + B64Val(chars[2]) * 4096
             + B64Val(chars[3]) * 64 + B64Val(chars[4])
    IN <<v \div 65536, (v \div 256) % 256, v % 256>>
       \o B64Quanta(SubSeq(chars, 5, Len(chars)))

\* RawStdEncoding.Decode(dst, src) with dst = make([]byte, DecodedLen(len(src))):
\* the buffer after the call and whether the call failed.  A character
\* outside the alphabet (the padding character included) and a tail of one
\* character are CorruptInputError.  The bytes of dst the decoder did not
\* write stay zero.
B64Decode(src) ==
  LET chars == DropNewlines(src)
      bad == \E i \in 1..Len(chars) : B64Val(chars[i]) = -1
      out == B64Quanta(chars)
  IN IF bad \/ Len(chars) % 4 = 1
     THEN [failed |-> TRUE, buf |-> <<>>]
     ELSE [failed |-> FALSE,
           buf |-> [i \in 1..DecodedLen(Len(src)) |->
                      IF i <= Len(out) THEN out[i] ELSE 0]]

(***************************************************************************)
(* The registered capabilities.  The algorithm implementations are outside *)
(* this file; these stand-ins are a matching pair per algorithm: a tag     *)
(* byte naming the algorithm followed by the payload bytes shifted by the  *)
(* secret.  The tag of aes-gcm is '*', so raw cipher output may itself     *)
(* start with the delimiter.                                               *)
(***************************************************************************)

Tag(a) == IF a = AesGcm THEN 42 ELSE 1

KeyOf(secret) == IF Len(secret) = 0 THEN 0 ELSE secret[1]

\* outcomes of one cipher call: it works, or it fails and returns nil
CipherFaults == {"none", "fail"}

\* cipher.Encrypt(ctx, payload, secret) of algorithm a
CipherEncrypt(a, payload, secret, fault) ==
  IF fault = "none"
  THEN [out |-> <<Tag(a)>> \o [i \in 1..Len(payload) |->
                                 (payload[i] + KeyOf(secret)) % 256],
        err |-> "none"]
  ELSE [out |-> <<>>, err |-> "cipher"]

\* decipher.Decrypt(ctx, payload, secret) of algorithm a
DecipherDecrypt(a, payload, secret) ==
  IF Len(payload) = 0 \/ payload[1] # Tag(a)
  THEN [out |-> <<>>, isNil |-> TRUE, err |-> "decipher"]
  ELSE [out |-> [i \in 1..(Len(payload) - 1) |->
                   (payload[i + 1] + 256 - KeyOf(secret)) % 256],
        isNil |-> FALSE, err |-> "none"]

(***************************************************************************)
(* The service                                                             *)
(***************************************************************************)

\* settingsProvider.KeyValue(section, key).MustString(default): the default
\* when the value is empty
MustString(value, default) == IF value = <<>> THEN default ELSE value

\* bytes.Index(s, []byte{b}): 0-based index of the first b, -1 when absent
IndexByte(s, b) ==
  IF \E i \in 1..Len(s) : s[i] = b
  THEN (CHOOSE i \in 1..Len(s) : s[i] = b /\ \A j \in 1..(i - 1) : s[j] # b) - 1
  ELSE -1

\* checkEncryptionAlgorithm without its second lookup
checkEncryptionAlgorithm_CiphersOnly(algorithm) ==
  IF algorithm \notin ciphers THEN "no cipher registered"
  ELSE "none"

\* checkEncryptionAlgorithm
checkEncryptionAlgorithm(algorithm) ==
  IF algorithm \notin ciphers THEN "no cipher registered"
  ELSE IF algorithm \notin deciphers THEN "no cipher registered"
  ELSE "none"

\* deriveEncryptionAlgorithm naming the configured algorithm, not aes-cfb,
\* for a payload without the leading delimiter
deriveEncryptionAlgorithm_ConfiguredLegacy(payload) ==
  IF Len(payload) = 0
  THEN [algorithm |-> <<>>, toDecrypt |-> <<>>, err |-> "derive", decodes |-> 0]
  ELSE IF payload[1] # encryptionAlgorithmDelimiter
  THEN [algorithm |-> MustString(configured, defaultEncryptionAlgorithm),
        toDecrypt |-> payload, err |-> "none", decodes |-> 0]
  ELSE
    LET rest == SubSeq(payload, 2, Len(payload))
        algorithmDelimiterIdx == IndexByte(rest, encryptionAlgorithmDelimiter)
    IN IF algorithmDelimiterIdx = -1
       THEN [algorithm |-> AesCfb, toDecrypt |-> rest, err |-> "none", decodes |-> 0]
       ELSE
         LET algorithmB64 == SubSeq(rest, 1, algorithmDelimiterIdx)
             remaining == SubSeq(rest, algorithmDelimiterIdx + 2, Len(rest))
             dec == B64Decode(algorithmB64)
         IN IF dec.failed
            THEN [algorithm |-> <<>>, toDecrypt |-> <<>>, err |-> "base64",
                  decodes |-> 1]
            ELSE [algorithm |-> dec.buf, toDecrypt |-> remaining, err |-> "none",
                  decodes |-> 1]

\* deriveEncryptionAlgorithm searching the second delimiter without having
\* stripped the first: with no second delimiter the whole payload is kept
deriveEncryptionAlgorithm_KeepDelimiter(payload) ==
  IF Len(payload) = 0
  THEN [algorithm |-> <<>>, toDecrypt |-> <<>>, err |-> "derive", decodes |-> 0]
  ELSE IF payload[1] # encryptionAlgorithmDelimiter
  THEN [algorithm |-> AesCfb, toDecrypt |-> payload, err |-> "none", decodes |-> 0]
  ELSE
    LET rest == SubSeq(payload, 2, Len(payload))
        algorithmDelimiterIdx == IndexByte(rest, encryptionAlgorithmDelimiter)
    IN IF algorithmDelimiterIdx = -1
       THEN [algorithm |-> AesCfb, toDecrypt |-> payload, err |-> "none",
             decodes |-> 0]
       ELSE
         LET algorithmB64 == SubSeq(rest, 1, algorithmDelimiterIdx)
             remaining == SubSeq(rest, algorithmDelimiterIdx + 2, Len(rest))
             dec == B64Decode(algorithmB64)
         IN IF dec.failed
            THEN [algorithm |-> <<>>, toDecrypt |-> <<>>, err |-> "base64",
                  decodes |-> 1]
            ELSE [algorithm |-> dec.buf, toDecrypt |-> remaining, err |-> "none",
                  decodes |-> 1]

\* deriveEncryptionAlgorithm; decodes counts the base64 decodings made
deriveEncryptionAlgorithm(payload) ==
  IF Len(payload) = 0
  THEN [algorithm |-> <<>>, toDecrypt |-> <<>>, err |-> "derive", decodes |-> 0]
  ELSE IF payload[1] # encryptionAlgorithmDelimiter
  THEN [algorithm |-> AesCfb, toDecrypt |-> payload, err |-> "none", decodes |-> 0]
  ELSE
    LET rest == SubSeq(payload, 2, Len(payload))
        algorithmDelimiterIdx == IndexByte(rest, encryptionAlgorithmDelimiter)
    IN IF algorithmDelimiterIdx = -1
       THEN [algorithm |-> AesCfb, toDecrypt |-> rest, err |-> "none", decodes |-> 0]
       ELSE
         LET algorithmB64 == SubSeq(rest, 1, algorithmDelimiterIdx)
             remaining == SubSeq(rest, algorithmDelimiterIdx + 2, Len(rest))
             dec == B64Decode(algorithmB64)
         IN IF dec.failed
            THEN [algorithm |-> <<>>, toDecrypt |-> <<>>, err |-> "base64",
                  decodes |-> 1]
            ELSE [algorithm |-> dec.buf, toDecrypt |-> remaining, err |-> "none",
                  decodes |-> 1]

\* Service.Decrypt falling back to the aes-cfb decipher when the algorithm
\* of the frame has none
Decrypt_FallbackDefault(payload, secret) ==
  LET d == deriveEncryptionAlgorithm(payload)
      algorithm == IF d.algorithm \in deciphers THEN d.algorithm ELSE AesCfb
  IN IF d.err # "none"
     THEN [bytes |-> <<>>, isNil |-> TRUE, err |-> d.err, calls |-> <<>>,
           decodes |-> d.decodes]
     ELSE IF algorithm \notin deciphers
     THEN [bytes |-> <<>>, isNil |-> TRUE, err |-> "no decipher available",
           calls |-> <<>>, decodes |-> d.decodes]
     ELSE
       LET r == DecipherDecrypt(algorithm, d.toDecrypt, secret)
       IN [bytes |-> r.out, isNil |-> r.isNil, err |-> r.err,
           calls |-> <<[algorithm |-> algorithm, payload |-> d.toDecrypt,
                        secret |-> secret]>>,
           decodes |-> d.decodes]

\* Service.Decrypt; calls lists the decipher invocations made
Decrypt(payload, secret) ==
  LET d == deriveEncryptionAlgorithm(payload)
  IN IF d.err # "none"
     THEN [bytes |-> <<>>, isNil |-> TRUE, err |-> d.err, calls |-> <<>>,
           decodes |-> d.decodes]
     ELSE IF d.algorithm \notin deciphers
     THEN [bytes |-> <<>>, isNil |-> TRUE, err |-> "no decipher available",
           calls |-> <<>>, decodes |-> d.decodes]
     ELSE
       LET r == DecipherDecrypt(d.algorithm, d.toDecrypt, secret)
       IN [bytes |-> r.out, isNil |-> r.isNil, err |-> r.err,
           calls |-> <<[algorithm |-> d.algorithm, payload |-> d.toDecrypt,
                        secret |-> secret]>>,
           decodes |-> d.decodes]

\* the frame prefix built with the padded encoding (StdEncoding)
EncryptPrefix_Padded(algorithm) ==
  LET enc == B64Encode(algorithm)
      n == ((Len(algorithm) + 2) \div 3) * 4 + 2
  IN [i \in 1..n |->
        IF i = 1 \/ i = n THEN encryptionAlgorithmDelimiter
        ELSE IF i - 1 <= Len(enc) THEN enc[i - 1] ELSE 61]

\* the frame prefix Encrypt builds: a buffer of EncodedLen+2 bytes, the
\* encoding written from its second byte, a delimiter in its first and last
EncryptPrefix(algorithm) ==
  LET n == EncodedLen(Len(algorithm)) + 2
      enc == B64Encode(algorithm)
  IN [i \in 1..n |->
        IF i = 1 \/ i = n THEN encryptionAlgorithmDelimiter
        ELSE IF i - 1 <= Len(enc) THEN enc[i - 1] ELSE 0]

\* Service.Encrypt; fault is the outcome of the cipher call.  cipher is what
\* the cipher call returned (NoCall when no cipher was called).
NoCall == [out |-> <<>>, err |-> "not called"]

Encrypt(payload, secret, fault) ==
  LET algorithm == MustString(configured, defaultEncryptionAlgorithm)
  IN IF algorithm \notin ciphers
     THEN [bytes |-> <<>>, isNil |-> TRUE, err |-> "no cipher available",
           algorithm |-> algorithm, cipher |-> NoCall]
     ELSE
       LET r == CipherEncrypt(algorithm, payload, secret, fault)
           prefix == EncryptPrefix(algorithm)
       IN [bytes |-> prefix \o r.out, isNil |-> FALSE, err |-> "none",
           algorithm |-> algorithm, cipher |-> r]

\* the loop of Service.EncryptJsonData over the keys in the order the map
\* iteration yields them; faults gives the outcome of each key's cipher call
RECURSIVE EncryptJsonLoop(_, _, _, _, _)
EncryptJsonLoop(kv, secret, faults, order, encrypted) ==
  IF Len(order) = 0
  THEN [map |-> encrypted, isNil |-> FALSE, err |-> "none"]
  ELSE
    LET key == order[1]
        r == Encrypt(kv[key], secret, faults[key])
    IN IF r.err # "none"
       THEN [map |-> <<>>, isNil |-> TRUE, err |-> r.err]
       ELSE EncryptJsonLoop(kv, secret, faults, Tail(order),
                            [k \in DOMAIN encrypted \cup {key} |->
                               IF k = key THEN r.bytes ELSE encrypted[k]])

\* Service.EncryptJsonData
EncryptJsonData(kv, secret, faults, order) ==
  EncryptJsonLoop(kv, secret, faults, order, <<>>)

\* Service.GetDecryptedValue returning what Decrypt returned also when
\* Decrypt failed
GetDecryptedValue_NoFallback(sjd, key, fallback, secret) ==
  IF key \in DOMAIN sjd
  THEN [value |-> Decrypt(sjd[key], secret).bytes, attempts |-> 1]
  ELSE [value |-> fallback, attempts |-> 0]

\* Service.GetDecryptedValue; attempts counts the Decrypt calls made
GetDecryptedValue(sjd, key, fallback, secret) ==
  IF key \in DOMAIN sjd
  THEN LET r == Decrypt(sjd[key], secret)
       IN IF r.err # "none"
          THEN [value |-> fallback, attempts |-> 1]
          ELSE [value |-> r.bytes, attempts |-> 1]
  ELSE [value |-> fallback, attempts |-> 0]

\* Service.Validate: the check on the algorithm of the section handed in
Validate(section) ==
  checkEncryptionAlgorithm(MustString(section, defaultEncryptionAlgorithm))

(***************************************************************************)
(* Inputs                                                                  *)
(***************************************************************************)

\* a well-formed frame naming x
Frame(x, rest) ==
  <<encryptionAlgorithmDelimiter>> \o B64Encode(x)
     \o <<encryptionAlgorithmDelimiter>> \o rest

FrameAlgs == {<<>>, AesCfb, AesGcm, UnknownAlg, UnknownAlg2, UnknownAlg3}

FrameRests == {<<>>, <<42>>, <<1, 149>>, <<42, 42>>}

\* '*', 'A', '\n' and the tag of the aes-cfb stand-in
RawBytes == {42, 65, 10, 1}

\* frames whose identifier segment holds a newline or a padding character
OddFrames == {<<42, 65, 10, 65, 42, 1>>, <<42, 10, 42, 1>>, <<42, 65, 65, 61, 42>>}

DecryptInputs ==
  SeqsUpTo(RawBytes, MaxRawLen)
    \cup {Frame(x, rest) : x \in FrameAlgs, rest \in FrameRests}
    \cup OddFrames

Keys == {"a", "b"}

\* values of the map given to EncryptJsonData
JsonValues == {<<49>>, <<191>>}

\* values of the map given to GetDecryptedValue: empty, a malformed frame,
\* a frame naming an unregistered algorithm, a legacy payload the decipher
\* rejects, a legacy payload, an aes-gcm frame
SjdValues ==
  {<<>>, <<42, 65, 42>>, Frame(UnknownAlg, <<1>>), <<65>>, <<1, 149>>,
   Frame(AesGcm, <<42, 42>>)}

Fallbacks == {<<>>, <<102>>}

Maps(D, V) == UNION {[K -> V] : K \in SUBSET D}

\* the orders in which a map with key set K may be iterated
Orders(K) ==
  {o \in SeqsUpTo(K, Cardinality(K)) :
     Len(o) = Cardinality(K) /\ {o[i] : i \in 1..Len(o)} = K}

(***************************************************************************)
(* State machine.  The service keeps nothing between calls; last is the    *)
(* call its caller made most recently, with what the call returned, until  *)
(* the caller lets go of it and makes the next call.  The configuration    *)
(* store changes on its own at any time.                                   *)
(***************************************************************************)

Idle == service = "ok" /\ last.op = "none"

Init ==
  /\ ciphers \in SUBSET Registrable
  /\ deciphers \in SUBSET Registrable
  /\ configured \in ConfigValues
  /\ service = "none"
  /\ last = [op |-> "none"]

\* ProvideEncryptionService: the service is returned only when the check
\* of the configured algorithm passes
ProvideEncryptionService ==
  /\ service = "none"
  /\ LET algorithm == MustString(configured, defaultEncryptionAlgorithm)
         err == checkEncryptionAlgorithm(algorithm)
     IN /\ service' = IF err # "none" THEN "nil" ELSE "ok"
        /\ last' = [op |-> "Provide", cfg |-> configured, err |-> err,
                    reloadHandler |-> (err = "none"),
                    usageMetrics |-> (err = "none")]
  /\ UNCHANGED <<ciphers, deciphers, configured>>

\* the configuration store changes the value of security.encryption/algorithm
SetConfig ==
  /\ service = "ok"
  /\ \E v \in ConfigValues :
       /\ v # configured
       /\ configured' = v
  /\ UNCHANGED <<ciphers, deciphers, service, last>>

ValidateAction ==
  /\ Idle
  /\ \E section \in ConfigValues :
       last' = [op |-> "Validate", section |-> section, err |-> Validate(section)]
  /\ UNCHANGED <<ciphers, deciphers, configured, service>>

\* Service.Reload
Reload ==
  /\ Idle
  /\ last' = [op |-> "Reload", err |-> "none"]
  /\ UNCHANGED <<ciphers, deciphers, configured, service>>

EncryptAction ==
  /\ Idle
  /\ \E payload \in Payloads, secret \in Secrets, fault \in CipherFaults :
       last' = [op |-> "Encrypt", cfg |-> configured, payload |-> payload,
                secret |-> secret, fault |-> fault, res |-> Encrypt(payload, secret, fault)]
  /\ UNCHANGED <<ciphers, deciphers, configured, service>>

DecryptAction ==
  /\ Idle
  /\ \E payload \in DecryptInputs, secret \in Secrets :
       last' = [op |-> "Decrypt", cfg |-> configured, payload |-> payload,
                secret |-> secret,
                res |-> Decrypt(payload, secret)]
  /\ UNCHANGED <<ciphers, deciphers, configured, service>>

\* Decrypt of the ciphertext the last Encrypt returned, with its secret;
\* the configuration may have changed in between
DecryptProduced ==
  /\ service = "ok"
  /\ last.op = "Encrypt"
  /\ last.res.err = "none"
  /\ last' = [op |-> "DecryptProduced", cfg |-> configured,
              payload |-> last.res.bytes,
              secret |-> last.secret,
              orig |-> [payload |-> last.payload, algorithm |-> last.res.algorithm,
                        cipher |-> last.res.cipher],
              res |-> Decrypt(last.res.bytes, last.secret)]
  /\ UNCHANGED <<ciphers, deciphers, configured, service>>

EncryptJsonDataAction ==
  /\ Idle
  /\ \E kv \in Maps(Keys, JsonValues), secret \in Secrets :
       \E faults \in [DOMAIN kv -> CipherFaults], order \in Orders(DOMAIN kv) :
         last' = [op |-> "EncryptJsonData", cfg |-> configured, kv |-> kv,
                  secret |-> secret,
                  faults |-> faults,
                  res |-> EncryptJsonData(kv, secret, faults, order)]
  /\ UNCHANGED <<ciphers, deciphers, configured, service>>

GetDecryptedValueAction ==
  /\ Idle
  /\ \E sjd \in Maps(Keys, SjdValues), key \in Keys, fallback \in Fallbacks,
        secret \in Secrets :
       last' = [op |-> "GetDecryptedValue", sjd |-> sjd, key |-> key,
                fallback |-> fallback, secret |-> secret,
                res |-> GetDecryptedValue(sjd, key, fallback, secret)]
  /\ UNCHANGED <<ciphers, deciphers, configured, service>>

\* the caller is done with the result of its last call
Return ==
  /\ last.op # "none"
  /\ last' = [op |-> "none"]
  /\ UNCHANGED <<ciphers, deciphers, configured, service>>

Next ==
  \/ ProvideEncryptionService
  \/ SetConfig
  \/ ValidateAction
  \/ Reload
  \/ EncryptAction
  \/ DecryptAction
  \/ DecryptProduced
  \/ EncryptJsonDataAction
  \/ GetDecryptedValueAction
  \/ Return

Spec == Init /\ [][Next]_vars

(***************************************************************************)
(* Properties                                                              *)
(***************************************************************************)

\* the algorithm a call found configured
AlgorithmOf(cfg) == MustString(cfg, defaultEncryptionAlgorithm)

\* payload starts with the frame header naming x
IsFrameOf(payload, x) ==
  LET header == <<42>> \o B64Encode(x) \o <<42>>
  IN Len(payload) >= Len(header) /\ SubSeq(payload, 1, Len(header)) = header

\* the characters of the standard base64 alphabet
B64Alphabet == (65..90) \cup (97..122) \cup (48..57) \cup {43, 47}

\* "*YWVzLWNmYg*"
AesCfbHeader == <<42, 89, 87, 86, 122, 76, 87, 78, 109, 89, 103, 42>>

\* C1: a ciphertext Encrypt returned for a non-empty payload under an
\* algorithm with a cipher and its matching decipher registered decrypts,
\* with the same secret, to exactly that payload and no error.
C1_RoundTrip ==
  (/\ last.op = "DecryptProduced"
   /\ Len(last.orig.payload) > 0
   /\ last.orig.algorithm \in ciphers \cap deciphers)
  => (/\ last.res.err = "none"
      /\ ~last.res.isNil
      /\ last.res.bytes = last.orig.payload)

\* C2: when the cipher call of Encrypt fails, Encrypt returns an error.
C2_CipherFailureReturned ==
  (last.op = "Encrypt" /\ last.res.cipher.err = "cipher")
  => last.res.err # "none"

\* C3: a successful Encrypt returns '*', the unpadded base64 of the
\* algorithm configured at the time of the call (aes-cfb when unset), '*',
\* and then what that algorithm's cipher returned for (payload, secret);
\* the base64 segment holds alphabet characters only, never '*'.
C3_WireFormat ==
  (last.op = "Encrypt" /\ last.res.err = "none")
  => LET a == AlgorithmOf(last.cfg)
         seg == B64Encode(a)
     IN /\ last.res.algorithm = a
        /\ last.res.cipher = CipherEncrypt(a, last.payload, last.secret, last.fault)
        /\ last.res.bytes = <<42>> \o seg \o <<42>> \o last.res.cipher.out
        /\ \A i \in 1..Len(seg) : seg[i] \in B64Alphabet /\ seg[i] # 42
        /\ Len(seg) = (Len(a) * 8 + 5) \div 6
        /\ (a = AesCfb => IsFrameOf(last.res.bytes, AesCfb)
                          /\ SubSeq(last.res.bytes, 1, 12) = AesCfbHeader)

C3_Witness ==
  /\ last.op = "Encrypt"
  /\ last.res.err = "none"
  /\ last.cfg = AesGcm
  /\ last.res.cipher.err = "none"
  /\ Len(last.payload) = MaxPayloadLen
  /\ \E i \in 1..Len(last.res.cipher.out) : last.res.cipher.out[i] = 42

\* C4: Decrypt of a frame naming an identifier with no registered decipher
\* returns an error and nil, and invokes no decipher.
C4_UnknownAlgorithm ==
  (/\ last.op = "Decrypt"
   /\ \E x \in FrameAlgs : x \notin deciphers /\ IsFrameOf(last.payload, x))
  => (/\ last.res.err = "no decipher available"
      /\ last.res.isNil
      /\ last.res.calls = <<>>)

C4_Witness ==
  /\ last.op = "Decrypt"
  /\ IsFrameOf(last.payload, UnknownAlg3)
  /\ Len(last.payload) > Len(B64Encode(UnknownAlg3)) + 2
  /\ AesCfb \in deciphers
  /\ last.res.err # "none"

\* what Decrypt returns when it hands toDecrypt to the aes-cfb decipher
ViaDefaultDecipher(toDecrypt) ==
  LET r == DecipherDecrypt(AesCfb, toDecrypt, last.secret)
  IN /\ last.res.calls = <<[algorithm |-> AesCfb, payload |-> toDecrypt,
                            secret |-> last.secret]>>
     /\ last.res.bytes = r.out
     /\ last.res.isNil = r.isNil
     /\ last.res.err = r.err

\* Decrypt failed for want of a decipher, invoking none
NoDecipherAvailable ==
  /\ last.res.err = "no decipher available"
  /\ last.res.isNil
  /\ last.res.calls = <<>>

IsLegacy(payload) == Len(payload) > 0 /\ payload[1] # 42

IsSingleDelimiter(payload) ==
  /\ Len(payload) > 0
  /\ payload[1] = 42
  /\ \A i \in 2..Len(payload) : payload[i] # 42

\* C5 as stated: Decrypt of a non-empty input not starting with '*' invokes
\* the aes-cfb decipher on the whole input and returns its result.
C5_LegacyAlways ==
  (last.op = "Decrypt" /\ IsLegacy(last.payload))
  => ViaDefaultDecipher(last.payload)

\* C5: Decrypt of a non-empty input not starting with '*' invokes the
\* aes-cfb decipher, whatever is configured, on the whole unmodified input
\* with the secret and returns its result, when an aes-cfb decipher is
\* registered; when none is, it fails without invoking a decipher.
C5_Legacy ==
  (last.op = "Decrypt" /\ IsLegacy(last.payload))
  => IF AesCfb \in deciphers
     THEN ViaDefaultDecipher(last.payload) /\ last.res.decodes = 0
     ELSE NoDecipherAvailable

C5_Witness ==
  /\ last.op = "Decrypt"
  /\ IsLegacy(last.payload)
  /\ Len(last.payload) = MaxRawLen
  /\ last.cfg = AesGcm
  /\ AesGcm \in deciphers
  /\ last.res.err = "none"
  /\ last.res.calls # <<>>

\* C6 as stated: Decrypt of an input that starts with '*' and holds no
\* second '*' invokes the aes-cfb decipher on the bytes after the '*',
\* decoding no base64.
C6_SingleDelimiterAlways ==
  (last.op = "Decrypt" /\ IsSingleDelimiter(last.payload))
  => (/\ ViaDefaultDecipher(SubSeq(last.payload, 2, Len(last.payload)))
      /\ last.res.decodes = 0)

\* C6: Decrypt of an input that starts with '*' and holds no second '*'
\* decodes no base64 and invokes the aes-cfb decipher on exactly the bytes
\* after the '*', when an aes-cfb decipher is registered; when none is, it
\* fails without invoking a decipher.
C6_SingleDelimiter ==
  (last.op = "Decrypt" /\ IsSingleDelimiter(last.payload))
  => /\ last.res.decodes = 0
     /\ IF AesCfb \in deciphers
        THEN ViaDefaultDecipher(SubSeq(last.payload, 2, Len(last.payload)))
        ELSE NoDecipherAvailable

C6_Witness ==
  /\ last.op = "Decrypt"
  /\ IsSingleDelimiter(last.payload)
  /\ Len(last.payload) = MaxRawLen
  /\ last.cfg = AesGcm
  /\ last.res.err = "none"
  /\ last.res.calls # <<>>

\* C7: construction and Validate fail exactly when the algorithm (aes-cfb
\* when unset) has no cipher or has no decipher registered; a failed
\* construction returns no service, a successful one returns the service.
C7_ConfigurationCheck ==
  /\ last.op = "Provide"
     => LET a == AlgorithmOf(last.cfg)
        IN /\ (last.err # "none") <=> (a \notin ciphers \/ a \notin deciphers)
           /\ (last.err # "none") <=> (service = "nil")
           /\ (last.err = "none") <=> (service = "ok")
  /\ last.op = "Validate"
     => LET a == AlgorithmOf(last.section)
        IN (last.err # "none") <=> (a \notin ciphers \/ a \notin deciphers)

C7_Witness ==
  /\ last.op = "Validate"
  /\ last.section \in ciphers
  /\ last.section \notin deciphers
  /\ last.err # "none"

\* values whose Decrypt fails under every registry: empty, a frame whose
\* identifier is not base64, a frame naming an unregistered algorithm, a
\* legacy payload the aes-cfb decipher rejects
AlwaysFailing == {<<>>, <<42, 65, 42>>, Frame(UnknownAlg, <<1>>), <<65>>}

\* C8: GetDecryptedValue returns the fallback, attempting no Decrypt, when
\* the key is absent; the fallback when Decrypt of the value fails; the
\* decrypted string when Decrypt succeeds.
C8_Fallback ==
  last.op = "GetDecryptedValue"
  => IF last.key \notin DOMAIN last.sjd
     THEN last.res.value = last.fallback /\ last.res.attempts = 0
     ELSE LET r == Decrypt(last.sjd[last.key], last.secret)
          IN /\ last.res.attempts = 1
             /\ r.err # "none" => last.res.value = last.fallback
             /\ r.err = "none" => last.res.value = r.bytes
             /\ last.sjd[last.key] \in AlwaysFailing
                => last.res.value = last.fallback

C8_Witness ==
  /\ last.op = "GetDecryptedValue"
  /\ last.key \in DOMAIN last.sjd
  /\ last.sjd[last.key] = <<42, 65, 42>>
  /\ last.fallback = <<102>>
  /\ last.res.value = <<102>>

\* C9: EncryptJsonData fails, returning no map, when the encryption of a
\* value fails (no cipher registered, or the cipher call fails); a map it
\* returns has exactly the keys of kv.
C9_AllOrNothing ==
  last.op = "EncryptJsonData"
  => /\ (\E k \in DOMAIN last.kv :
           \/ last.faults[k] # "none"
           \/ AlgorithmOf(last.cfg) \notin ciphers)
        => (last.res.err # "none" /\ last.res.isNil)
     /\ last.res.err = "none" => DOMAIN last.res.map = DOMAIN last.kv

\* C10: a ciphertext Encrypt returned under algorithm a for a non-empty
\* payload decrypts to the original payload, as long as a's decipher is registered, also when
\* another algorithm is configured by the time of the Decrypt.
C10_ConfigIndependent ==
  (/\ last.op = "DecryptProduced"
   /\ Len(last.orig.payload) > 0
   /\ AlgorithmOf(last.cfg) # last.orig.algorithm
   /\ last.orig.algorithm \in deciphers)
  => (/\ last.res.err = "none"
      /\ last.res.bytes = last.orig.payload)

====
